---- MODULE Spec2Model ----
(***************************************************************************)
(* Model of neurodsp/spectral/utils.py: trim_spectrum, trim_spectrogram,   *)
(* get_positive_fft_outputs and pad_signal.                                *)
(*                                                                         *)
(* The functions are pure, so the state is the record of calls made: the   *)
(* function called last (fn), its arguments (args), its return value (ret) *)
(* and the earlier calls of the same chain (hist).  A chained call feeds   *)
(* the arrays returned by the previous call back into the function.  A     *)
(* return value is a record with a field for each array returned, named as *)
(* the source names it.                                                    *)
(*                                                                         *)
(* Arrays.  A 1-D array is a sequence.  A 2-D array is a record            *)
(* [ndim |-> 2, shape |-> <<r, c>>, rows |-> <<row_1, ..., row_r>>] so     *)
(* that an array with no rows still has its number of columns, as a numpy  *)
(* array has.  power_spectra may be 1-D or 2-D, and is then written        *)
(* [ndim |-> 1, shape |-> <<n>>, data |-> seq] in the 1-D case.            *)
(* Coordinates and samples are integers: the code only compares them.      *)
(* None is the empty tuple; an optional array a is <<a>> when given.       *)
(***************************************************************************)
EXTENDS Integers, Sequences, FiniteSets

VARIABLES fn, args, ret, hist

vars == <<fn, args, ret, hist>>

---------------------------------------------------------------------------
(* Bounds of the model *)

\* longest freqs given to trim_spectrum and to get_positive_fft_outputs
MaxLen == 4
\* frequencies and the limits of f_range given to trim_spectrum are 0..MaxCoord
MaxCoord == 2
\* most rows (n_spectra) of a 2-D power_spectra
MaxSpectra == 2
\* longest freqs and longest times given to trim_spectrogram
MaxSpgLen == 2
\* coordinates and range limits given to trim_spectrogram are 0..MaxSpgCoord
MaxSpgCoord == 1
\* longest np.fft.fftfreq layout given to get_positive_fft_outputs
MaxFftLen == 6
\* longest sig given to pad_signal
MaxSigLen == 3
\* samples of sig are 0..MaxSample
MaxSample == 1
\* largest length asked of pad_signal
MaxTarget == 13

---------------------------------------------------------------------------
(* Values *)

None == <<>>

Min(a, b) == IF a <= b THEN a ELSE b

\* all sequences over S of length exactly n
SeqOfLen(S, n) == [1..n -> S]

\* all sequences over S of length at most n
SeqUpTo(S, n) == UNION {SeqOfLen(S, k) : k \in 0..n}

Array1(data) == [ndim |-> 1, shape |-> <<Len(data)>>, data |-> data]

Array2(nrows, ncols, rows) == [ndim |-> 2, shape |-> <<nrows, ncols>>, rows |-> rows]

\* The code never reads a power: it only moves powers about.  Each cell of a
\* power array given to a first call therefore holds its own row-major
\* position (1, 2, 3, ... as in the arrays of test_utils.py), so that the
\* cell a returned value came from can be told from the value.
TaggedArray1(n) == Array1([i \in 1..n |-> i])

TaggedArray2(nrows, ncols) ==
    Array2(nrows, ncols,
           [r \in 1..nrows |-> [c \in 1..ncols |-> (r - 1) * ncols + c]])

\* [low, high] pairs over 0..m, low > high included
Ranges(m) == (0..m) \X (0..m)

\* the same, or None for a range that is not given
OptRanges(m) == Ranges(m) \cup {None}

---------------------------------------------------------------------------
(* numpy operations used by the code *)

\* RangeMask with the lower limit left out of the range (> for >=)
RangeMaskStrictLow(c, rng) ==
    [i \in 1..Len(c) |-> (c[i] > rng[1]) /\ (c[i] <= rng[2])]

\* RangeMask with the limits taken as indices into c, not as values
RangeMaskByIndex(c, rng) ==
    [i \in 1..Len(c) |-> (i - 1 >= rng[1]) /\ (i - 1 <= rng[2])]

\* np.logical_and(c >= rng[0], c <= rng[1]): the boolean mask over c
RangeMask(c, rng) == [i \in 1..Len(c) |-> (c[i] >= rng[1]) /\ (c[i] <= rng[2])]

\* a[mask] for a 1-D array a and a boolean mask of the same length
RECURSIVE MaskSelectFrom(_, _, _)
MaskSelectFrom(a, mask, i) ==
    IF i > Len(a) THEN <<>>
    ELSE IF mask[i] THEN <<a[i]>> \o MaskSelectFrom(a, mask, i + 1)
    ELSE MaskSelectFrom(a, mask, i + 1)

MaskSelect(a, mask) == MaskSelectFrom(a, mask, 1)

\* number of TRUE entries of a mask
MaskCount(mask) == Cardinality({i \in DOMAIN mask : mask[i]})

\* a[mask, :] for a 2-D array a: the rows the mask keeps
MaskRows(a, mask) ==
    Array2(MaskCount(mask), a.shape[2], MaskSelect(a.rows, mask))

\* a[:, mask] for a 2-D array a: the columns the mask keeps, in every row
MaskCols(a, mask) ==
    Array2(a.shape[1], MaskCount(mask),
           [r \in 1..a.shape[1] |-> MaskSelect(a.rows[r], mask)])

---------------------------------------------------------------------------
(* trim_spectrum(freqs, power_spectra, f_range) *)

\* trim_spectrum taking the leading len(freqs_ext) powers, not the masked ones
trim_spectrum_leading(freqs, power_spectra, f_range) ==
    LET f_mask == RangeMask(freqs, f_range)
        freqs_ext == MaskSelect(freqs, f_mask)
        leading == [i \in 1..Len(freqs) |-> i <= Len(freqs_ext)]
        power_spectra_ext ==
            IF power_spectra.ndim = 1
            THEN Array1(MaskSelect(power_spectra.data, leading))
            ELSE MaskCols(power_spectra, leading)
    IN  [freqs_ext |-> freqs_ext, power_spectra_ext |-> power_spectra_ext]

trim_spectrum(freqs, power_spectra, f_range) ==
    LET f_mask == RangeMask(freqs, f_range)
        freqs_ext == MaskSelect(freqs, f_mask)
        power_spectra_ext ==
            IF power_spectra.ndim = 1
            THEN Array1(MaskSelect(power_spectra.data, f_mask))
            ELSE MaskCols(power_spectra, f_mask)
    IN  [freqs_ext |-> freqs_ext, power_spectra_ext |-> power_spectra_ext]

\* the state after the call trim_spectrum(freqs, power_spectra, f_range)
DoTrimSpectrum(freqs, power_spectra, f_range) ==
    /\ fn' = "trim_spectrum"
    /\ args' = [freqs |-> freqs, power_spectra |-> power_spectra, f_range |-> f_range]
    /\ ret' = trim_spectrum(freqs, power_spectra, f_range)

\* A first call of trim_spectrum, with 1-D or with 2-D power_spectra
CallTrimSpectrum ==
    /\ fn = "none"
    /\ hist' = hist
    /\ \E freqs \in SeqUpTo(0..MaxCoord, MaxLen), f_range \in Ranges(MaxCoord) :
         \/ DoTrimSpectrum(freqs, TaggedArray1(Len(freqs)), f_range)
         \/ \E n_spectra \in 1..MaxSpectra :
               DoTrimSpectrum(freqs, TaggedArray2(n_spectra, Len(freqs)), f_range)

\* trim_spectrum called again on what it returned, with the same f_range
RetrimSpectrum ==
    /\ fn = "trim_spectrum"
    /\ hist = <<>>
    /\ hist' = <<[fn |-> fn, args |-> args, ret |-> ret]>>
    /\ DoTrimSpectrum(ret.freqs_ext, ret.power_spectra_ext, args.f_range)

---------------------------------------------------------------------------

(* trim_spectrogram(freqs, times, spg, f_range=None, t_range=None) *)

\* trim_spectrogram with the time mask applied to spg, not to spg_ext, so that
\* the rows the frequency mask dropped come back
trim_spectrogram_from_spg(freqs, times, spg, f_range, t_range) ==
    LET f_mask == RangeMask(freqs, f_range)
        freqs_ext == IF f_range # None THEN MaskSelect(freqs, f_mask) ELSE freqs
        spg_f == IF f_range # None THEN MaskRows(spg, f_mask) ELSE spg
        times_mask == RangeMask(times, t_range)
        times_ext == IF t_range # None THEN MaskSelect(times, times_mask) ELSE times
        spg_ext == IF t_range # None THEN MaskCols(spg, times_mask) ELSE spg_f
    IN  [freqs_ext |-> freqs_ext, times_ext |-> times_ext, spg_ext |-> spg_ext]

\* trim_spectrogram with t_range falling back to f_range when it is not given
trim_spectrogram_shared_range(freqs, times, spg, f_range, t_range) ==
    LET t_used == IF t_range # None THEN t_range ELSE f_range
        f_mask == RangeMask(freqs, f_range)
        freqs_ext == IF f_range # None THEN MaskSelect(freqs, f_mask) ELSE freqs
        spg_f == IF f_range # None THEN MaskRows(spg, f_mask) ELSE spg
        times_mask == RangeMask(times, t_used)
        times_ext == IF t_used # None THEN MaskSelect(times, times_mask) ELSE times
        spg_ext == IF t_used # None THEN MaskCols(spg_f, times_mask) ELSE spg_f
    IN  [freqs_ext |-> freqs_ext, times_ext |-> times_ext, spg_ext |-> spg_ext]

trim_spectrogram(freqs, times, spg, f_range, t_range) ==
    LET f_mask == RangeMask(freqs, f_range)
        freqs_ext == IF f_range # None THEN MaskSelect(freqs, f_mask) ELSE freqs
        spg_f == IF f_range # None THEN MaskRows(spg, f_mask) ELSE spg
        times_mask == RangeMask(times, t_range)
        times_ext == IF t_range # None THEN MaskSelect(times, times_mask) ELSE times
        spg_ext == IF t_range # None THEN MaskCols(spg_f, times_mask) ELSE spg_f
    IN  [freqs_ext |-> freqs_ext, times_ext |-> times_ext, spg_ext |-> spg_ext]

\* the state after the call trim_spectrogram(freqs, times, spg, f_range, t_range)
DoTrimSpectrogram(freqs, times, spg, f_range, t_range) ==
    /\ fn' = "trim_spectrogram"
    /\ args' = [freqs |-> freqs, times |-> times, spg |-> spg,
                f_range |-> f_range, t_range |-> t_range]
    /\ ret' = trim_spectrogram(freqs, times, spg, f_range, t_range)

\* A first call of trim_spectrogram
CallTrimSpectrogram ==
    /\ fn = "none"
    /\ hist' = hist
    /\ \E freqs \in SeqUpTo(0..MaxSpgCoord, MaxSpgLen),
          times \in SeqUpTo(0..MaxSpgCoord, MaxSpgLen),
          f_range \in OptRanges(MaxSpgCoord),
          t_range \in OptRanges(MaxSpgCoord) :
            DoTrimSpectrogram(freqs, times, TaggedArray2(Len(freqs), Len(times)),
                              f_range, t_range)

\* trim_spectrogram called again on what it returned, with the same ranges
RetrimSpectrogram ==
    /\ fn = "trim_spectrogram"
    /\ hist = <<>>
    /\ hist' = <<[fn |-> fn, args |-> args, ret |-> ret]>>
    /\ DoTrimSpectrogram(ret.freqs_ext, ret.times_ext, ret.spg_ext,
                         args.f_range, args.t_range)

\* After a call that trimmed one axis only, trim_spectrogram called on what it
\* returned to trim the other axis only
TrimOtherAxis ==
    /\ fn = "trim_spectrogram"
    /\ hist = <<>>
    /\ hist' = <<[fn |-> fn, args |-> args, ret |-> ret]>>
    /\ \/ /\ args.f_range # None
          /\ args.t_range = None
          /\ \E t_range \in Ranges(MaxSpgCoord) :
                DoTrimSpectrogram(ret.freqs_ext, ret.times_ext, ret.spg_ext,
                                  None, t_range)
       \/ /\ args.f_range = None
          /\ args.t_range # None
          /\ \E f_range \in Ranges(MaxSpgCoord) :
                DoTrimSpectrogram(ret.freqs_ext, ret.times_ext, ret.spg_ext,
                                  f_range, None)

---------------------------------------------------------------------------
(* get_positive_fft_outputs(freqs, powers=None, drop_zero=False) *)

\* int(np.ceil(n / 2))
CeilHalf(n) == (n + 1) \div 2

\* int(np.floor(n / 2))
FloorHalf(n) == n \div 2

\* a[start:stop] for 0 <= start and 0 <= stop: Python clips stop to len(a) and
\* gives the empty array when start is not below it
PySlice(a, start, stop) == SubSeq(a, start + 1, Min(stop, Len(a)))

\* get_positive_fft_outputs with the half length rounded down (len // 2)
get_positive_fft_outputs_floor(freqs, powers, drop_zero) ==
    LET start_ind == IF drop_zero THEN 1 ELSE 0
        end_ind == FloorHalf(Len(freqs))
    IN  IF powers # None
        THEN [freqs |-> PySlice(freqs, start_ind, end_ind),
              spectrum |-> PySlice(powers[1], start_ind, end_ind)]
        ELSE [freqs |-> PySlice(freqs, start_ind, end_ind)]

\* get_positive_fft_outputs with the end one bin further (len // 2 + 1, the
\* length of a one-sided spectrum)
get_positive_fft_outputs_one_sided(freqs, powers, drop_zero) ==
    LET start_ind == IF drop_zero THEN 1 ELSE 0
        end_ind == FloorHalf(Len(freqs)) + 1
    IN  IF powers # None
        THEN [freqs |-> PySlice(freqs, start_ind, end_ind),
              spectrum |-> PySlice(powers[1], start_ind, end_ind)]
        ELSE [freqs |-> PySlice(freqs, start_ind, end_ind)]

get_positive_fft_outputs(freqs, powers, drop_zero) ==
    LET start_ind == IF drop_zero THEN 1 ELSE 0
        end_ind == CeilHalf(Len(freqs))
    IN  IF powers # None
        THEN [freqs |-> PySlice(freqs, start_ind, end_ind),
              spectrum |-> PySlice(powers[1], start_ind, end_ind)]
        ELSE [freqs |-> PySlice(freqs, start_ind, end_ind)]

\* np.fft.fftfreq(n) in bins: 0, 1, ..., (n-1)//2, then -(n//2), ..., -1
FftFreq(n) ==
    [i \in 1..n |-> IF i <= (n - 1) \div 2 + 1 THEN i - 1 ELSE i - 1 - n]

\* the state after the call get_positive_fft_outputs(freqs, powers, drop_zero)
DoGetPositiveFftOutputs(freqs, powers, drop_zero) ==
    /\ fn' = "get_positive_fft_outputs"
    /\ args' = [freqs |-> freqs, powers |-> powers, drop_zero |-> drop_zero]
    /\ ret' = get_positive_fft_outputs(freqs, powers, drop_zero)
    /\ hist' = hist

\* powers for a freqs of length n: not given, or an array of length n
OptPowers(n) == {None, <<TaggedArray1(n).data>>}

\* A call with any freqs at all
CallGetPositiveFftOutputs ==
    /\ fn = "none"
    /\ \E freqs \in SeqUpTo(-MaxCoord..MaxCoord, MaxLen), drop_zero \in BOOLEAN :
         \E powers \in OptPowers(Len(freqs)) :
            DoGetPositiveFftOutputs(freqs, powers, drop_zero)

\* A call with the freqs np.fft.fftfreq gives for n >= 1 bins
CallGetPositiveOfFftFreq ==
    /\ fn = "none"
    /\ \E n \in 1..MaxFftLen, drop_zero \in BOOLEAN :
         \E powers \in OptPowers(n) :
            DoGetPositiveFftOutputs(FftFreq(n), powers, drop_zero)

---------------------------------------------------------------------------
(* pad_signal(sig, length, fast_len=False) *)

\* n with every factor p divided out
RECURSIVE DivideOut(_, _)
DivideOut(n, p) == IF n % p = 0 THEN DivideOut(n \div p, p) ELSE n

\* n >= 1 has no prime factor above 11
IsFastLen(n) == DivideOut(DivideOut(DivideOut(DivideOut(DivideOut(n, 2), 3), 5), 7), 11) = 1

\* scipy.fft.next_fast_len(target) for target >= 0: the least composite of
\* 2, 3, 5, 7 and 11 that is >= target (0 for 0)
RECURSIVE next_fast_len(_)
next_fast_len(target) ==
    IF target = 0 \/ IsFastLen(target) THEN target ELSE next_fast_len(target + 1)

\* np.pad(a, (left, right), mode='constant', constant_values=0)
Zeros(n) == [i \in 1..n |-> 0]

NpPad(a, left, right) == Zeros(left) \o a \o Zeros(right)

\* pad_signal with the extra zero of an odd padding on the left
pad_signal_extra_left(sig, length, fast_len) ==
    IF length > Len(sig)
    THEN LET length2 == IF fast_len THEN next_fast_len(length) ELSE length
             npad_total == length2 - Len(sig)
         IN  NpPad(sig, CeilHalf(npad_total), FloorHalf(npad_total))
    ELSE sig

\* pad_signal with the padding rounded down on both sides
pad_signal_floor_both(sig, length, fast_len) ==
    IF length > Len(sig)
    THEN LET length2 == IF fast_len THEN next_fast_len(length) ELSE length
             npad_total == length2 - Len(sig)
         IN  NpPad(sig, FloorHalf(npad_total), FloorHalf(npad_total))
    ELSE sig

\* pad_signal cutting sig down to length when length is below len(sig)
pad_signal_truncating(sig, length, fast_len) ==
    IF length > Len(sig)
    THEN LET length2 == IF fast_len THEN next_fast_len(length) ELSE length
             npad_total == length2 - Len(sig)
         IN  NpPad(sig, FloorHalf(npad_total), CeilHalf(npad_total))
    ELSE SubSeq(sig, 1, length)

pad_signal(sig, length, fast_len) ==
    IF length > Len(sig)
    THEN LET length2 == IF fast_len THEN next_fast_len(length) ELSE length
             npad_total == length2 - Len(sig)
             npad_left == FloorHalf(npad_total)
             npad_right == CeilHalf(npad_total)
         IN  NpPad(sig, npad_left, npad_right)
    ELSE sig

CallPadSignal ==
    /\ fn = "none"
    /\ \E sig \in SeqUpTo(0..MaxSample, MaxSigLen), length \in 0..MaxTarget,
          fast_len \in BOOLEAN :
            /\ fn' = "pad_signal"
            /\ args' = [sig |-> sig, length |-> length, fast_len |-> fast_len]
            /\ ret' = [sig |-> pad_signal(sig, length, fast_len)]
            /\ hist' = hist

---------------------------------------------------------------------------

Init ==
    /\ fn = "none"
    /\ args = <<>>
    /\ ret = <<>>
    /\ hist = <<>>

Next ==
    \/ CallTrimSpectrum
    \/ RetrimSpectrum
    \/ CallTrimSpectrogram
    \/ RetrimSpectrogram
    \/ TrimOtherAxis
    \/ CallGetPositiveFftOutputs
    \/ CallGetPositiveOfFftFreq
    \/ CallPadSignal

Spec == Init /\ [][Next]_vars

---------------------------------------------------------------------------
(* Properties *)

\* e lies in [low, high], both limits included
InRange(e, rng) == rng[1] <= e /\ e <= rng[2]

\* the indices of c whose elements lie in rng
KeptIndices(c, rng) == {i \in 1..Len(c) : InRange(c[i], rng)}

\* the place, among the kept elements, of the element at index i
Rank(c, rng, i) == Cardinality({k \in KeptIndices(c, rng) : k <= i})

\* out is the subsequence of c of the elements that lie in rng
IsRangeTrim(c, rng, out) ==
    /\ DOMAIN out = 1..Cardinality(KeptIndices(c, rng))
    /\ \A j \in DOMAIN out : InRange(out[j], rng)
    /\ \A i \in KeptIndices(c, rng) : out[Rank(c, rng, i)] = c[i]

\* C1: the freqs_ext that trim_spectrum returns is exactly the subsequence of
\* freqs of the elements e with f_range[0] <= e <= f_range[1], in their
\* original order, for every f_range (low > high included); it is the empty
\* array when no element is in range.
C1_TrimSpectrumFreqs ==
    fn = "trim_spectrum" =>
        /\ IsRangeTrim(args.freqs, args.f_range, ret.freqs_ext)
        /\ (KeptIndices(args.freqs, args.f_range) = {} => ret.freqs_ext = <<>>)

\* a call that drops an element below the range and keeps two elements that
\* are out of order
C1_Witness ==
    /\ fn = "trim_spectrum"
    /\ hist = <<>>
    /\ \E i \in 1..Len(args.freqs) : args.freqs[i] < args.f_range[1]
    /\ Len(ret.freqs_ext) = 2
    /\ ret.freqs_ext[1] > ret.freqs_ext[2]

\* C2: trim_spectrum keeps the powers aligned with the frequencies it keeps.
\* 1-D power_spectra: power_ext[j] and freqs_ext[j] come from the same index.
\* 2-D power_spectra [n_spectra, N]: every row is kept and is trimmed along
\* the last axis in that same way.  The length of freqs_ext is the length of
\* power_ext along the trimmed axis.
C2_TrimSpectrumAligned ==
    fn = "trim_spectrum" =>
        LET kept == KeptIndices(args.freqs, args.f_range)
            rank(i) == Rank(args.freqs, args.f_range, i)
            p == args.power_spectra
            p_ext == ret.power_spectra_ext
            n_ext == Len(ret.freqs_ext)
        IN  /\ \A i \in kept : ret.freqs_ext[rank(i)] = args.freqs[i]
            /\ p_ext.ndim = p.ndim
            /\ p.ndim = 1 =>
                 /\ p_ext.shape = <<n_ext>>
                 /\ DOMAIN p_ext.data = 1..n_ext
                 /\ \A i \in kept : p_ext.data[rank(i)] = p.data[i]
            /\ p.ndim = 2 =>
                 /\ p_ext.shape = <<p.shape[1], n_ext>>
                 /\ DOMAIN p_ext.rows = 1..p.shape[1]
                 /\ \A r \in 1..p.shape[1] :
                       /\ DOMAIN p_ext.rows[r] = 1..n_ext
                       /\ \A i \in kept : p_ext.rows[r][rank(i)] = p.rows[r][i]

\* a call with two spectra that drops a frequency lying between two it keeps
C2_Witness ==
    /\ fn = "trim_spectrum"
    /\ hist = <<>>
    /\ args.power_spectra.ndim = 2
    /\ args.power_spectra.shape[1] = 2
    /\ KeptIndices(args.freqs, args.f_range) = {1, 3}
    /\ ret.power_spectra_ext.rows = << <<1, 3>>, <<4, 6>> >>

\* the first call trimmed frequency only and this one, made on what it
\* returned, time only
FreqThenTime ==
    /\ fn = "trim_spectrogram"
    /\ Len(hist) = 1
    /\ hist[1].args.f_range # None /\ hist[1].args.t_range = None
    /\ args.f_range = None /\ args.t_range # None

\* the first call trimmed time only and this one, made on what it returned,
\* frequency only
TimeThenFreq ==
    /\ fn = "trim_spectrogram"
    /\ Len(hist) = 1
    /\ hist[1].args.f_range = None /\ hist[1].args.t_range # None
    /\ args.f_range # None /\ args.t_range = None

\* C3: trimming on frequency only and then on time only gives the same
\* (freqs_ext, times_ext, spg_ext) as trimming on time only and then on
\* frequency only, and both give what the single call with f_range and t_range
\* gives.
C3_TrimAxesCommute ==
    /\ FreqThenTime =>
         LET a == hist[1].args
             t_first == trim_spectrogram(a.freqs, a.times, a.spg, None, args.t_range)
         IN  /\ ret = trim_spectrogram(a.freqs, a.times, a.spg, a.f_range, args.t_range)
             /\ ret = trim_spectrogram(t_first.freqs_ext, t_first.times_ext,
                                       t_first.spg_ext, a.f_range, None)
    /\ TimeThenFreq =>
         LET a == hist[1].args
             f_first == trim_spectrogram(a.freqs, a.times, a.spg, args.f_range, None)
         IN  /\ ret = trim_spectrogram(a.freqs, a.times, a.spg, args.f_range, a.t_range)
             /\ ret = trim_spectrogram(f_first.freqs_ext, f_first.times_ext,
                                       f_first.spg_ext, None, a.t_range)

\* frequency was trimmed, then time, and each trim dropped one of two elements
C3_Witness ==
    /\ FreqThenTime
    /\ Len(hist[1].args.freqs) = 2 /\ Len(ret.freqs_ext) = 1
    /\ Len(hist[1].args.times) = 2 /\ Len(ret.times_ext) = 1
    /\ ret.spg_ext.shape = <<1, 1>>

\* C4: in trim_spectrogram a range that is not given leaves its axis as it is.
\* f_range absent: freqs_ext is freqs, every row of spg is kept, and times and
\* axis 1 of spg are trimmed to t_range.  t_range absent: times_ext is times,
\* every column of spg is kept, and freqs and axis 0 are trimmed to f_range.
\* Both absent: freqs, times and spg are returned as given.
C4_AbsentRangeKeepsAxis ==
    (fn = "trim_spectrogram" /\ hist = <<>>) =>
        LET F == Len(args.freqs)
            T == Len(args.times)
            s == args.spg
            s_ext == ret.spg_ext
        IN  /\ (args.f_range = None /\ args.t_range # None) =>
                 /\ ret.freqs_ext = args.freqs
                 /\ IsRangeTrim(args.times, args.t_range, ret.times_ext)
                 /\ s_ext.shape = <<F, Len(ret.times_ext)>>
                 /\ DOMAIN s_ext.rows = 1..F
                 /\ \A r \in 1..F :
                       /\ DOMAIN s_ext.rows[r] = 1..Len(ret.times_ext)
                       /\ \A j \in KeptIndices(args.times, args.t_range) :
                             s_ext.rows[r][Rank(args.times, args.t_range, j)] = s.rows[r][j]
            /\ (args.f_range # None /\ args.t_range = None) =>
                 /\ ret.times_ext = args.times
                 /\ IsRangeTrim(args.freqs, args.f_range, ret.freqs_ext)
                 /\ s_ext.shape = <<Len(ret.freqs_ext), T>>
                 /\ DOMAIN s_ext.rows = 1..Len(ret.freqs_ext)
                 /\ \A i \in KeptIndices(args.freqs, args.f_range) :
                       s_ext.rows[Rank(args.freqs, args.f_range, i)] = s.rows[i]
            /\ (args.f_range = None /\ args.t_range = None) =>
                 /\ ret.freqs_ext = args.freqs
                 /\ ret.times_ext = args.times
                 /\ ret.spg_ext = args.spg

\* f_range is given and drops a frequency, t_range is not given and a time
\* lies outside f_range
C4_Witness ==
    /\ fn = "trim_spectrogram"
    /\ hist = <<>>
    /\ args.f_range # None /\ args.t_range = None
    /\ Len(args.freqs) = 2 /\ Len(ret.freqs_ext) = 1
    /\ Len(args.times) = 2
    /\ \E j \in 1..2 : ~InRange(args.times[j], args.f_range)
    /\ ret.spg_ext.shape = <<1, 2>>

\* the length pad_signal pads to: length, or next_fast_len(length) with fast_len
PadTarget == IF args.fast_len THEN next_fast_len(args.length) ELSE args.length

\* C5: for length > len(sig), pad_signal returns left = floor(total_pad / 2)
\* zeros, then the samples of sig in order, then right = ceil(total_pad / 2)
\* zeros, where total_pad = length' - len(sig) and length' is length, or
\* next_fast_len(length) >= length with fast_len; when total_pad is odd the
\* extra zero is on the right.
C5_PadSplit ==
    (fn = "pad_signal" /\ args.length > Len(args.sig)) =>
        LET L == Len(args.sig)
            total_pad == PadTarget - L
        IN  /\ PadTarget >= args.length
            /\ \E left \in 0..total_pad, right \in 0..total_pad :
                  /\ 2 * left <= total_pad /\ total_pad < 2 * left + 2
                  /\ 2 * right >= total_pad /\ total_pad > 2 * right - 2
                  /\ (total_pad % 2 = 1 => right = left + 1)
                  /\ DOMAIN ret.sig = 1..(left + L + right)
                  /\ \A i \in 1..left : ret.sig[i] = 0
                  /\ \A k \in 1..L : ret.sig[left + k] = args.sig[k]
                  /\ \A i \in (left + L + 1)..(left + L + right) : ret.sig[i] = 0

\* fast_len moves the length from 13 to 14 and the padding is odd
C5_Witness ==
    /\ fn = "pad_signal"
    /\ args.fast_len
    /\ args.length > Len(args.sig)
    /\ PadTarget > args.length
    /\ (PadTarget - Len(args.sig)) % 2 = 1
    /\ \E k \in 1..Len(args.sig) : args.sig[k] # 0

\* C6 as claimed: the array pad_signal returns always has the target length
\* (length, or the fast length of length with fast_len).
C6_LengthAlwaysTarget ==
    fn = "pad_signal" => Len(ret.sig) = PadTarget

\* C6 as amended: when length > len(sig) the array pad_signal returns has the
\* target length (length, or the fast length of length with fast_len);
\* otherwise it has the length of sig.
C6_LengthIsTargetWhenPadding ==
    fn = "pad_signal" =>
        /\ args.length > Len(args.sig) => Len(ret.sig) = PadTarget
        /\ args.length <= Len(args.sig) => Len(ret.sig) = Len(args.sig)

\* a signal of two samples padded to five without fast_len
C6_Witness ==
    /\ fn = "pad_signal"
    /\ ~args.fast_len
    /\ Len(args.sig) = 2
    /\ args.length = 5
    /\ Len(ret.sig) = 5

\* C7: pad_signal never truncates: for length <= len(sig), with fast_len or
\* without, it returns sig unchanged.
C7_PadNeverTruncates ==
    (fn = "pad_signal" /\ args.length <= Len(args.sig)) => ret.sig = args.sig

\* a length below that of sig, with fast_len
C7_Witness ==
    /\ fn = "pad_signal"
    /\ args.fast_len
    /\ Len(args.sig) = 3
    /\ args.length = 1
    /\ Len(ret.sig) = 3

\* a[start:stop] told by its elements: those at the 0-based indices
\* start, ..., stop - 1
IsSliceOf(a, start, stop, out) ==
    /\ DOMAIN out = 1..(IF stop > start THEN stop - start ELSE 0)
    /\ \A j \in DOMAIN out : out[j] = a[start + j]

\* C8: for freqs of length N >= 0, get_positive_fft_outputs returns
\* freqs[start:end] with start = 1 if drop_zero else 0 and end = ceil(N / 2),
\* and the same slice of powers when powers is given (the slice of freqs alone
\* otherwise).  Without drop_zero index 0 is included and N/2 bins are
\* returned for even N, ceil(N/2) for odd N; with drop_zero index 0 is excluded.
C8_PositiveSlice ==
    fn = "get_positive_fft_outputs" =>
        LET N == Len(args.freqs)
            start == IF args.drop_zero THEN 1 ELSE 0
            end == CHOOSE e \in 0..N : 2 * e >= N /\ 2 * e < N + 2
        IN  /\ IsSliceOf(args.freqs, start, end, ret.freqs)
            /\ args.powers # None =>
                 /\ DOMAIN ret = {"freqs", "spectrum"}
                 /\ IsSliceOf(args.powers[1], start, end, ret.spectrum)
            /\ args.powers = None => DOMAIN ret = {"freqs"}
            /\ (~args.drop_zero /\ N % 2 = 0) => 2 * Len(ret.freqs) = N
            /\ (~args.drop_zero /\ N % 2 = 1) => 2 * Len(ret.freqs) = N + 1
            /\ (~args.drop_zero /\ N >= 1) => ret.freqs[1] = args.freqs[1]
            /\ (args.drop_zero /\ N >= 1) => 2 * (Len(ret.freqs) + 1) \in {N, N + 1}
            /\ (args.drop_zero /\ N >= 3) => ret.freqs[1] = args.freqs[2]

\* powers are given, drop_zero is set and freqs has three bins
C8_Witness ==
    /\ fn = "get_positive_fft_outputs"
    /\ args.powers # None
    /\ args.drop_zero
    /\ Len(args.freqs) = 3
    /\ ret.spectrum = <<2>>

\* C9: trimming is idempotent: trim_spectrum with f_range on what
\* trim_spectrum with f_range returned returns the same frequencies and
\* powers; trim_spectrogram with f_range and t_range on what it returned with
\* them returns the same freqs, times and spectrogram.
C9_TrimIdempotent ==
    /\ (fn = "trim_spectrum" /\ Len(hist) = 1) =>
          /\ args.freqs = hist[1].ret.freqs_ext
          /\ args.power_spectra = hist[1].ret.power_spectra_ext
          /\ args.f_range = hist[1].args.f_range
          /\ ret = hist[1].ret
    /\ (fn = "trim_spectrogram" /\ Len(hist) = 1
           /\ args.f_range = hist[1].args.f_range
           /\ args.t_range = hist[1].args.t_range) =>
          /\ args.freqs = hist[1].ret.freqs_ext
          /\ args.times = hist[1].ret.times_ext
          /\ args.spg = hist[1].ret.spg_ext
          /\ ret = hist[1].ret

\* a spectrum of two power rows is trimmed again after a first trim dropped
\* its first frequency and kept two
C9_Witness ==
    /\ fn = "trim_spectrum"
    /\ Len(hist) = 1
    /\ hist[1].args.power_spectra.ndim = 2
    /\ Len(hist[1].args.freqs) = 3
    /\ KeptIndices(hist[1].args.freqs, hist[1].args.f_range) = {2, 3}
    /\ Len(ret.freqs_ext) = 2

NonNegative(e) == e >= 0

Positive(e) == e > 0

\* freqs has the layout of the FFT bins: 0, 1, ..., ceil(N/2) - 1 and then
\* -floor(N/2), ..., -1
HasFftLayout(freqs) ==
    LET N == Len(freqs)
        n_pos == CHOOSE e \in 0..N : 2 * e >= N /\ 2 * e < N + 2
    IN  /\ N >= 1
        /\ \A i \in 1..n_pos : freqs[i] = i - 1
        /\ \A i \in (n_pos + 1)..N : freqs[i] = i - 1 - N

\* C10: when freqs has the FFT bin layout of length N >= 1, the slice of
\* get_positive_fft_outputs is the selection by value: without drop_zero the
\* entries >= 0, with drop_zero the entries > 0, for even and for odd N.
C10_SliceIsValueSelection ==
    (fn = "get_positive_fft_outputs" /\ HasFftLayout(args.freqs)) =>
        /\ ret.freqs = IF args.drop_zero THEN SelectSeq(args.freqs, Positive)
                       ELSE SelectSeq(args.freqs, NonNegative)
        /\ \A j \in 1..Len(ret.freqs) : ret.freqs[j] >= 0
        /\ \A i \in 1..Len(args.freqs) :
              args.freqs[i] > 0 => \E j \in 1..Len(ret.freqs) : ret.freqs[j] = args.freqs[i]

\* six bins, 0 1 2 -3 -2 -1, without drop_zero
C10_Witness ==
    /\ fn = "get_positive_fft_outputs"
    /\ args.freqs = <<0, 1, 2, -3, -2, -1>>
    /\ ~args.drop_zero
    /\ ret.freqs = <<0, 1, 2>>

====
